---- MODULE Spec2Model ----
(***************************************************************************)
(* The SimpleBlock codec of webm-iterable: the conversions                 *)
(*   impl TryFrom<TagData> for SimpleBlock   (decode)                      *)
(*   impl Into<TagData> for SimpleBlock      (encode)                      *)
(* of src/matroska_spec/simple_block.rs, together with the Block codec and *)
(* the vint helpers they call.  A tag or a SimpleBlock value is moved into *)
(* a conversion and the conversion's result is what the caller holds       *)
(* afterwards; history records every conversion made so far.               *)
(***************************************************************************)
EXTENDS Integers, Sequences, FiniteSets, TLC

VARIABLES tag, sb, outcome, history

vars == <<tag, sb, outcome, history>>

----------------------------------------------------------------------------
(* Bounds of the explored inputs.                                          *)

MaxPayloadLen == 1
MaxRawLen == 2
MaxSteps == 3

----------------------------------------------------------------------------
(* Bytes and bit arithmetic on u8.                                         *)

Byte == 0..255

Pow2(n) == 2^n

Bit(b, n) == (b \div Pow2(n)) % 2

\* a & b on u8
BitAnd(a, b) ==
    LET bit(i) == IF Bit(a, i) = 1 /\ Bit(b, i) = 1 THEN Pow2(i) ELSE 0
    IN  bit(0) + bit(1) + bit(2) + bit(3) + bit(4) + bit(5) + bit(6) + bit(7)

\* a | b on u8
BitOr(a, b) ==
    LET bit(i) == IF Bit(a, i) = 1 \/ Bit(b, i) = 1 THEN Pow2(i) ELSE 0
    IN  bit(0) + bit(1) + bit(2) + bit(3) + bit(4) + bit(5) + bit(6) + bit(7)

\* data[from..] of a Vec<u8>, from 0-based
SliceFrom(data, from) == SubSeq(data, from + 1, Len(data))

\* data[i] of a Vec<u8>, i 0-based and in bounds
At(data, i) == data[i + 1]

----------------------------------------------------------------------------
(* ebml_iterable::tools : vint reading and writing.                        *)

\* number of bytes the first byte of a vint announces: leading zeros + 1
VintLength(first) ==
    CHOOSE len \in 1..8 : first >= Pow2(8 - len) /\ first < Pow2(9 - len)

RECURSIVE FromBytesBE(_)
\* big-endian unsigned value of a byte sequence
FromBytesBE(bytes) ==
    IF bytes = << >> THEN 0
    ELSE FromBytesBE(SubSeq(bytes, 1, Len(bytes) - 1)) * 256 + bytes[Len(bytes)]

RECURSIVE ToBytesBE(_, _)
\* the len big-endian bytes of an unsigned value
ToBytesBE(n, len) ==
    IF len = 0 THEN << >>
    ELSE Append(ToBytesBE(n \div 256, len - 1), n % 256)

\* read_vint(&data): Err on a zero first byte, None on an empty buffer or one
\* shorter than the announced length, Some((value, length)) otherwise
read_vint(data) ==
    IF data = << >> THEN [kind |-> "None", value |-> 0, size |-> 0]
    ELSE IF data[1] = 0 THEN [kind |-> "Err", value |-> 0, size |-> 0]
    ELSE LET length == VintLength(data[1])
         IN  IF length > Len(data) THEN [kind |-> "None", value |-> 0, size |-> 0]
             ELSE [kind  |-> "Some",
                   value |-> FromBytesBE(<<data[1] - Pow2(8 - length)>>
                                         \o SubSeq(data, 2, length)),
                   size  |-> length]

\* minimal number of vint bytes that hold a value
MinVintLength(n) == CHOOSE len \in 1..8 :
    /\ n <= Pow2(7 * len) - 1
    /\ \A k \in 1..(len - 1) : n > Pow2(7 * k) - 1

\* track.as_vint(): the canonical minimal-length vint of a value
as_vint(n) == ToBytesBE(n + Pow2(7 * MinVintLength(n)), MinVintLength(n))

----------------------------------------------------------------------------
(* i16 timecodes.                                                          *)

\* i16::from_be_bytes([hi, lo])
i16_from_be_bytes(hi, lo) ==
    IF hi * 256 + lo >= 32768 THEN hi * 256 + lo - 65536 ELSE hi * 256 + lo

\* value.to_be_bytes() of an i16
i16_to_be_bytes(v) == ToBytesBE((v + 65536) % 65536, 2)

----------------------------------------------------------------------------
(* TagData, WebmError and the results of the conversions.                  *)

Binary(data) == [type |-> "Binary", data |-> data]

Other(type, data) == [type |-> type, data |-> data]

SimpleBlockCoercionError(msg) == [variant |-> "SimpleBlockCoercionError", msg |-> msg]

BlockCoercionError(msg) == [variant |-> "BlockCoercionError", msg |-> msg]

NoError == [variant |-> "", msg |-> ""]

\* Result<T, WebmError>, or the panic that aborts the conversion; calls lists
\* the helpers the conversion invoked, in order
Ok(v, calls) == [kind |-> "Ok", val |-> <<v>>, err |-> NoError, calls |-> calls]

Err(e, calls) == [kind |-> "Err", val |-> << >>, err |-> e, calls |-> calls]

Panic(msg, calls) ==
    [kind |-> "Panic", val |-> << >>, err |-> [variant |-> "panic", msg |-> msg],
     calls |-> calls]

----------------------------------------------------------------------------
(* Block codec: flags bit 3 is invisible, bits 1-2 are the lacing, every    *)
(* other bit is left zero by the encoder; the bytes after the flags byte   *)
(* are the payload.                                                        *)

InvisibleMask == 8
LacingMask == 6
LacingShift == 1

\* lacing of the 2-bit field: 00 None, 01 Xiph, 10 FixedSize, 11 EBML
LacingOf(bits) ==
    CASE bits = 0 -> "None"
      [] bits = 1 -> "Xiph"
      [] bits = 2 -> "FixedSize"
      [] bits = 3 -> "Ebml"

\* the 2-bit field of a lacing
LacingBits(lacing) ==
    CASE lacing = "None" -> 0
      [] lacing = "Xiph" -> 1
      [] lacing = "FixedSize" -> 2
      [] lacing = "Ebml" -> 3

\* impl TryFrom<TagData> for Block
BlockTryFrom(t) ==
    IF t.type # "Binary"
    THEN Err(BlockCoercionError("Expected binary tag type for Block tag, but received a different type!"), << >>)
    ELSE LET data == t.data
             vint == read_vint(data)
         IN  IF vint.kind # "Some"
             THEN Err(BlockCoercionError("Unable to read track data in Block."), <<"read_vint">>)
             ELSE IF Len(data) < vint.size + 3
             THEN Err(BlockCoercionError("Unable to read block data in Block."), <<"read_vint">>)
             ELSE LET flags == At(data, vint.size + 2)
                  IN  Ok([track     |-> vint.value,
                          value     |-> i16_from_be_bytes(At(data, vint.size),
                                                          At(data, vint.size + 1)),
                          invisible |-> BitAnd(flags, InvisibleMask) = InvisibleMask,
                          lacing    |-> LacingOf(BitAnd(flags, LacingMask) \div Pow2(LacingShift)),
                          payload   |-> SliceFrom(data, vint.size + 3)],
                         <<"read_vint">>)

\* impl Into<TagData> for Block
BlockInto(b) ==
    Binary(as_vint(b.track)
           \o i16_to_be_bytes(b.value)
           \o <<(IF b.invisible THEN InvisibleMask ELSE 0)
                + LacingBits(b.lacing) * Pow2(LacingShift)>>
           \o b.payload)

----------------------------------------------------------------------------
(* SimpleBlock codec.                                                      *)

KeyframeMask == 128
DiscardableMask == 1

ExpectedBinaryMsg ==
    "Expected binary tag type for SimpleBlock tag, but received a different type!"

UnreadableTrackMsg == "Unable to read track data in SimpleBlock."

\* mutant: every variant is taken for binary content
IsBinary_AnyVariant(value) == TRUE

\* if let TagData::Binary(data) = &value
IsBinary(value) == value.type = "Binary"

\* mutant: the timecode's second byte is taken for the flags byte
TryFromPosition_OffByOne(track_size) == 0 + track_size + 1

\* try_from: position += track_size + 2, from position = 0
TryFromPosition(track_size) == 0 + track_size + 2

\* mutant: keyframe read from bit 6
KeyframeOf_Bit6(flags) == BitAnd(flags, 64) = 64

\* flags & 0x80 == 0x80
KeyframeOf(flags) == BitAnd(flags, KeyframeMask) = KeyframeMask

\* mutant: discardable read from bit 1
DiscardableOf_Bit1(flags) == BitAnd(flags, 2) = 2

\* flags & 0x01 == 0x01
DiscardableOf(flags) == BitAnd(flags, DiscardableMask) = DiscardableMask

\* impl TryFrom<TagData> for SimpleBlock
SimpleBlockTryFrom(value) ==
    IF IsBinary(value)
    THEN LET data == value.data
             vint == read_vint(data)
         IN  IF vint.kind # "Some"
             THEN Err(SimpleBlockCoercionError(UnreadableTrackMsg), <<"read_vint">>)
             ELSE LET position == TryFromPosition(vint.size)
                  IN  IF position >= Len(data)
                      THEN Panic("index out of bounds", <<"read_vint", "index">>)
                      ELSE LET flags == At(data, position)
                               keyframe == KeyframeOf(flags)
                               discardable == DiscardableOf(flags)
                               block == BlockTryFrom(value)
                               calls == <<"read_vint", "index", "Block::try_from">>
                           IN  IF block.kind # "Ok"
                               THEN Err(block.err, calls)
                               ELSE Ok([block       |-> block.val[1],
                                        discardable |-> discardable,
                                        keyframe    |-> keyframe],
                                       calls)
    ELSE Err(SimpleBlockCoercionError(ExpectedBinaryMsg), << >>)

\* mutant: the first payload byte is taken for the flags byte
IntoPosition_OffByOne(track_size) == 0 + track_size + 3

\* into: position += track_size + 2, from position = 0
IntoPosition(track_size) == 0 + track_size + 2

\* mutant: discardable written to bit 1
SetDiscardable_Bit1(flags, discardable) ==
    IF discardable THEN BitOr(flags, 2) ELSE flags

\* if self.discardable { *flags |= 0x01; }
SetDiscardable(flags, discardable) ==
    IF discardable THEN BitOr(flags, DiscardableMask) ELSE flags

\* mutant: keyframe written to bit 6
SetKeyframe_Bit6(flags, keyframe) ==
    IF keyframe THEN BitOr(flags, 64) ELSE flags

\* mutant: the flags byte is assigned, not or-ed
SetKeyframe_Assign(flags, keyframe) ==
    IF keyframe THEN KeyframeMask ELSE flags

\* if self.keyframe { *flags |= 0x80; }
SetKeyframe(flags, keyframe) ==
    IF keyframe THEN BitOr(flags, KeyframeMask) ELSE flags

\* impl Into<TagData> for SimpleBlock
SimpleBlockInto(self) ==
    LET result == BlockInto(self.block)
    IN  IF result.type = "Binary"
        THEN LET data == result.data
                 vint == read_vint(data)
             IN  IF vint.kind # "Some"
                 THEN Panic("Invalid data passed to block.  Could not read track.",
                            <<"Block::into", "read_vint">>)
                 ELSE LET position == IntoPosition(vint.size)
                          calls == <<"Block::into", "read_vint", "index">>
                      IN  IF position >= Len(data)
                          THEN Panic("index out of bounds", calls)
                          ELSE Ok(Binary([data EXCEPT ![position + 1] =
                                      SetKeyframe(SetDiscardable(@, self.discardable),
                                                  self.keyframe)]),
                                  calls)
        ELSE Panic("Never should reach here - block was not binary tag type",
                   <<"Block::into">>)

----------------------------------------------------------------------------
(* The inputs a caller may hand to the conversions.                        *)

RECURSIVE SeqsUpTo(_, _)
\* every sequence over S of length at most n
SeqsUpTo(S, n) ==
    IF n = 0 THEN {<< >>}
    ELSE LET shorter == SeqsUpTo(S, n - 1)
         IN  shorter \cup {Append(q, x) : q \in shorter, x \in S}

\* the buffer of the documentation example and of the unit test
ExampleBuffer == <<129, 0, 1, 157, 0, 0, 0>>

PayloadBytes == {0, 171}

Payloads == SeqsUpTo(PayloadBytes, MaxPayloadLen)

\* track vints: 1 and 127 in one byte, 1 and 128 in two bytes, 5 in eight bytes
VintSamples == {<<129>>, <<255>>, <<64, 1>>, <<64, 128>>, <<1, 0, 0, 0, 0, 0, 0, 5>>}

TimecodeSamples == {<<0, 1>>, <<255, 255>>, <<128, 0>>}

\* buffers with the whole layout: vint, timecode, any flags byte, payload
LayoutBuffers ==
    {v \o tc \o <<f>> \o p :
        v \in VintSamples, tc \in TimecodeSamples, f \in Byte, p \in Payloads}

\* buffers cut before the end of the flags byte
TruncatedBuffers ==
    UNION {{SubSeq(v \o tc, 1, n) : n \in 0..(Len(v) + 2)} :
              v \in VintSamples, tc \in TimecodeSamples}

RawBytes == {0, 1, 129}

RawBuffers == SeqsUpTo(RawBytes, MaxRawLen)

BinaryTags ==
    {Binary(d) : d \in LayoutBuffers \cup TruncatedBuffers \cup RawBuffers \cup {ExampleBuffer}}

\* tags of another variant, some of them holding the bytes of a block
OtherTags ==
    {Other(t, d) : t \in {"Utf8", "UnsignedInt", "Master"},
                   d \in {<< >>, <<129>>, ExampleBuffer}}

TrackSamples == {0, 1, 127, 128, 16383, 16384}

ValueSamples == {-32768, -1, 0, 1, 255, 256, 32767}

Lacings == {"None", "Xiph", "FixedSize", "Ebml"}

Blocks ==
    [track : TrackSamples, value : ValueSamples, invisible : BOOLEAN,
     lacing : Lacings, payload : Payloads]

SimpleBlocks == [block : Blocks, discardable : BOOLEAN, keyframe : BOOLEAN]

----------------------------------------------------------------------------
(* The state machine: the caller holds a tag or a SimpleBlock and converts *)
(* it, at most MaxSteps times in a row.                                    *)

Init ==
    /\ \/ tag \in {<<t>> : t \in BinaryTags \cup OtherTags} /\ sb = << >>
       \/ sb \in {<<v>> : v \in SimpleBlocks} /\ tag = << >>
    /\ outcome = "none"
    /\ history = << >>

\* let simple_block: SimpleBlock = tag.try_into()
TryFrom ==
    /\ tag # << >>
    /\ Len(history) < MaxSteps
    /\ LET r == SimpleBlockTryFrom(tag[1])
       IN  /\ sb' = r.val
           /\ outcome' = r.kind
           /\ history' = Append(history, [op |-> "try_from", arg |-> tag[1], res |-> r])
    /\ tag' = << >>

\* let encoded: TagData = simple_block.into()
Into ==
    /\ sb # << >>
    /\ Len(history) < MaxSteps
    /\ LET r == SimpleBlockInto(sb[1])
       IN  /\ tag' = r.val
           /\ outcome' = r.kind
           /\ history' = Append(history, [op |-> "into", arg |-> sb[1], res |-> r])
    /\ sb' = << >>

Next == TryFrom \/ Into

Spec == Init /\ [][Next]_vars

----------------------------------------------------------------------------
(* Properties.  Step i of history is one conversion: its argument arg and  *)
(* its result res.                                                         *)

Steps == 1..Len(history)

IsTryFrom(i) == i \in Steps /\ history[i].op = "try_from"

IsInto(i) == i \in Steps /\ history[i].op = "into"

\* offset of the flags byte of a buffer whose track vint is readable
FlagsOffset(data) == read_vint(data).size + 2

\* the buffer holds a readable vint, the timecode and the flags byte
HasFlagsByte(data) ==
    read_vint(data).kind = "Some" /\ Len(data) >= read_vint(data).size + 3

\* the flags byte of such a buffer
FlagsByte(data) == data[FlagsOffset(data) + 1]

C2_DecodeEncode ==
    \A i \in Steps :
        IsInto(i) /\ IsTryFrom(i + 1) =>
            /\ history[i].res.kind = "Ok"
            /\ history[i + 1].arg = history[i].res.val[1]
            /\ history[i + 1].res.kind = "Ok"
            /\ history[i + 1].res.val[1] = history[i].arg

C2_Witness ==
    /\ IsInto(1) /\ IsTryFrom(2)
    /\ history[1].arg.keyframe /\ history[1].arg.discardable
    /\ history[1].arg.block.track = 16384
    /\ history[1].arg.block.value = -32768
    /\ history[1].arg.block.lacing = "Ebml"
    /\ history[2].res.kind = "Ok"

\* track vint of minimal length and flags bits 4-6 clear: the buffers a
\* SimpleBlock encoder produces
EncoderShaped(data) ==
    /\ HasFlagsByte(data)
    /\ SubSeq(data, 1, read_vint(data).size) = as_vint(read_vint(data).value)
    /\ Bit(FlagsByte(data), 4) = 0
    /\ Bit(FlagsByte(data), 5) = 0
    /\ Bit(FlagsByte(data), 6) = 0

C4_TruncatedIsError ==
    \A i \in Steps :
        /\ IsTryFrom(i)
        /\ history[i].arg.type = "Binary"
        /\ ~HasFlagsByte(history[i].arg.data)
        => history[i].res.kind = "Err"

\* C5: decoding a tag that is not Binary returns the type-mismatch error
\* without reading a vint, without calling the Block decoder and without a
\* SimpleBlock value; the error differs from the one returned for a binary
\* buffer whose track vint cannot be read.
C5_TypeMismatch ==
    \A i \in Steps :
        IsTryFrom(i) =>
            /\ history[i].arg.type # "Binary" =>
                   /\ history[i].res.kind = "Err"
                   /\ history[i].res.err.variant = "SimpleBlockCoercionError"
                   /\ history[i].res.err.msg = ExpectedBinaryMsg
                   /\ history[i].res.calls = << >>
                   /\ history[i].res.val = << >>
                   /\ sb = << >> /\ tag = << >>
            /\ history[i].arg.type = "Binary"
               /\ read_vint(history[i].arg.data).kind # "Some" =>
                   /\ history[i].res.kind = "Err"
                   /\ history[i].res.err.msg # ExpectedBinaryMsg

C5_Witness ==
    /\ IsTryFrom(1)
    /\ history[1].arg = Other("Utf8", ExampleBuffer)
    /\ history[1].res.kind = "Err"
    /\ outcome = "Err"

\* the two byte sequences have the same length and agree everywhere but at
\* 0-based offset k
SameExceptAt(a, b, k) ==
    /\ Len(a) = Len(b)
    /\ \A j \in 1..Len(a) : j # k + 1 => a[j] = b[j]

\* the two bytes differ in bit n and in no other bit
DifferOnlyInBit(x, y, n) ==
    \A m \in 0..7 : (Bit(x, m) # Bit(y, m)) <=> (m = n)

\* C6: the encodings of two SimpleBlock values that differ only in
\* discardable differ only in bit 0 of the flags byte, and those of two that
\* differ only in keyframe differ only in bit 7 of the flags byte.
C6_FlagIsolation ==
    \A i \in Steps :
        IsInto(i) /\ history[i].res.kind = "Ok" =>
            LET v == history[i].arg
                enc == history[i].res.val[1].data
                k == FlagsOffset(enc)
                encD == SimpleBlockInto([v EXCEPT !.discardable = ~@])
                encK == SimpleBlockInto([v EXCEPT !.keyframe = ~@])
            IN  /\ encD.kind = "Ok"
                /\ SameExceptAt(enc, encD.val[1].data, k)
                /\ DifferOnlyInBit(enc[k + 1], encD.val[1].data[k + 1], 0)
                /\ encK.kind = "Ok"
                /\ SameExceptAt(enc, encK.val[1].data, k)
                /\ DifferOnlyInBit(enc[k + 1], encK.val[1].data[k + 1], 7)

C6_Witness ==
    /\ IsInto(1)
    /\ history[1].res.kind = "Ok"
    /\ history[1].arg.block.track = 128
    /\ history[1].arg.block.invisible
    /\ history[1].arg.block.payload = <<171>>
    /\ ~history[1].arg.keyframe /\ history[1].arg.discardable

\* the lacing each value of the 2-bit field stands for
LacingTable == <<"None", "Xiph", "FixedSize", "Ebml">>

WithoutSimpleBlockBits(data) ==
    [data EXCEPT ![FlagsOffset(data) + 1] = @ - Bit(@, 7) * 128 - Bit(@, 0)]

\* C8: when decode succeeds, keyframe is bit 7 and discardable is bit 0 of
\* the byte at offset vint length + 2, the embedded Block is what the Block
\* decoder returns for the same buffer, and that Block does not depend on
\* bits 0 and 7.
C8_FlagBits ==
    \A i \in Steps :
        IsTryFrom(i) /\ history[i].res.kind = "Ok" =>
            LET data == history[i].arg.data
                v == history[i].res.val[1]
            IN  /\ history[i].arg.type = "Binary"
                /\ HasFlagsByte(data)
                /\ v.keyframe <=> (Bit(data[read_vint(data).size + 3], 7) = 1)
                /\ v.discardable <=> (Bit(data[read_vint(data).size + 3], 0) = 1)
                /\ BlockTryFrom(Binary(data)).kind = "Ok"
                /\ v.block = BlockTryFrom(Binary(data)).val[1]
                /\ v.block = BlockTryFrom(Binary(WithoutSimpleBlockBits(data))).val[1]

C8_Witness ==
    /\ IsTryFrom(1)
    /\ history[1].res.kind = "Ok"
    /\ history[1].arg.data = <<64, 128, 255, 255, 128, 171>>
    /\ history[1].res.val[1].keyframe
    /\ ~history[1].res.val[1].discardable

\* C9: the encoding of a SimpleBlock is the Block encoding of its embedded
\* Block with only the flags byte changed, to its value with bit 0 set if
\* discardable and bit 7 set if keyframe; no bit is cleared.
C9_EncodeOverBlock ==
    \A i \in Steps :
        IsInto(i) /\ history[i].res.kind = "Ok" =>
            LET v == history[i].arg
                enc == history[i].res.val[1].data
                blk == BlockInto(v.block).data
                k == FlagsOffset(blk)
            IN  /\ history[i].res.val[1].type = "Binary"
                /\ SameExceptAt(enc, blk, k)
                /\ \A m \in 0..7 :
                       Bit(enc[k + 1], m) = 1 <=>
                           \/ Bit(blk[k + 1], m) = 1
                           \/ m = 0 /\ v.discardable
                           \/ m = 7 /\ v.keyframe
                /\ ~v.discardable /\ ~v.keyframe => enc = blk

C9_Witness ==
    /\ IsInto(1)
    /\ history[1].res.kind = "Ok"
    /\ history[1].arg.keyframe /\ history[1].arg.discardable
    /\ history[1].arg.block.invisible
    /\ history[1].arg.block.lacing = "Ebml"
    /\ history[1].arg.block.track = 16383

\* C10: encoding never takes a fatal exit: the Block encoder's buffer is
\* binary, its leading vint is readable and the flags offset lies inside it,
\* so a binary buffer is returned.
C10_EncodeNeverFatal ==
    \A i \in Steps :
        IsInto(i) =>
            LET blk == BlockInto(history[i].arg.block)
            IN  /\ blk.type = "Binary"
                /\ read_vint(blk.data).kind = "Some"
                /\ read_vint(blk.data).size + 2 < Len(blk.data)
                /\ history[i].res.kind = "Ok"
                /\ history[i].res.val[1].type = "Binary"
                /\ outcome # "Panic"

C10_Witness ==
    /\ IsInto(1)
    /\ history[1].arg.block.payload = << >>
    /\ history[1].arg.block.track = 16384
    /\ history[1].res.kind = "Ok"
    /\ Len(history[1].res.val[1].data) = 6

====
